---- MODULE Spec2Model ----
(***************************************************************************)
(* A model of the wonderbox IoC container (src/src/lib.rs): the two type-  *)
(* keyed maps of a Container, register, extend, try_resolve and resolve,   *)
(* the automatically derived Box<dyn Fn() -> T> producers, and the         *)
(* diagnostic of a failed resolve; of the value-storing container of       *)
(* src/src/main.rs; and of the attribute of src/wonderbox-codegen.         *)
(***************************************************************************)
EXTENDS Integers, Sequences, FiniteSets, TLC

VARIABLES container, history, fwd, last, held, called,
          store, heap, given, resolved,
          item, expansion, adapted

\* The state of the container of src/src/main.rs and of its caller.
mainVars == <<store, heap, given, resolved>>

\* The state of one expansion of #[resolve_dependencies].
codegenVars == <<item, expansion, adapted>>

vars == <<container, history, fwd, last, held, called, mainVars, codegenVars>>

(***************************************************************************)
(* Bounds.                                                                 *)
(***************************************************************************)
\* Nested factory invocations the call stack holds before it is exhausted.
MaxStack == 4
\* Registrations made on a second container before it is merged into the first.
MaxOther == 1

\* The longest text a String holds.
MaxLen == 1

\* Heap cells that shared handles point to.
MaxCells == 1

\* Items of an impl block under the attribute.
MaxItems == 2

(***************************************************************************)
(* Types and their identities.  A type is a base type under fn wrappers    *)
(* Box<dyn Fn() -> _>.                                                     *)
(***************************************************************************)
BaseTypes == {"String", "Foo", "Bar"}

Ty(b, n) == [base |-> b, fn |-> n]

TString == Ty("String", 0)
TFoo == Ty("Foo", 0)
TBar == Ty("Bar", 0)

\* Box<dyn Fn() -> T>
Producer(T) == [T EXCEPT !.fn = @ + 1]

IsProducer(T) == T.fn > 0

\* The T of Box<dyn Fn() -> T>
Produced(T) == [T EXCEPT !.fn = @ - 1]

\* The pieces the type names are made of, numbered in the order of their
\* first characters: ">" < "boxed::Box<dyn " < "boxed::Box<tests::List" <
\* "ops::Fn() -> " < "std::" < "string::String" < "tests::Bar" < "tests::Foo".
Tok == [gt |-> 1, boxdyn |-> 2, boxlist |-> 3, opsfn |-> 4, std |-> 5, string |-> 6,
        tbar |-> 7, tfoo |-> 8]

BaseName(b) ==
  CASE b = "String" -> <<Tok.std, Tok.string>>
    [] b = "Foo" -> <<Tok.std, Tok.boxdyn, Tok.tfoo, Tok.gt>>
    [] b = "Bar" -> <<Tok.std, Tok.boxdyn, Tok.tbar, Tok.gt>>
    [] b = "BoxSelf" -> <<Tok.std, Tok.boxlist, Tok.gt>>

\* A naming that leaves the Box<dyn Fn() -> _> wrappers out.
type_name_unwrapped(T) == BaseName(T.base)

\* std::intrinsics::type_name::<T>()
RECURSIVE type_name(_)
type_name(T) ==
  IF T.fn = 0 THEN BaseName(T.base)
  ELSE <<Tok.std, Tok.boxdyn, Tok.std, Tok.opsfn>> \o type_name(Produced(T)) \o <<Tok.gt>>

(***************************************************************************)
(* The factories the callers register.  A factory resolves its             *)
(* dependencies with try_resolve().unwrap(), in order, and builds its      *)
(* value from them.  pfoo is a factory of the callable type                *)
(* Box<dyn Fn() -> Box<dyn Foo>> itself.  afoo and abar are registrations   *)
(* made with register_autoresolvable!: deps are the parameter types of the *)
(* constructor of the implementation.                                      *)
(***************************************************************************)
FactoryTable ==
  [str    |-> [out |-> TString, deps |-> <<>>],
   foo    |-> [out |-> TFoo, deps |-> <<TString>>],
   foocyc |-> [out |-> TFoo, deps |-> <<TBar>>],
   bar    |-> [out |-> TBar, deps |-> <<TFoo>>],
   pfoo   |-> [out |-> Producer(TFoo), deps |-> <<>>],
   afoo   |-> [out |-> TFoo, deps |-> <<TString>>],
   abar   |-> [out |-> TBar, deps |-> <<TFoo, TString>>]]

\* register_autoresolvable!(container, FooImpl as Box<dyn Foo>) and the like
AutoFactories == {"afoo", "abar"}

Factories == (DOMAIN FactoryTable) \ AutoFactories

\* The types the callers ask for: what the factories build, and the producers
\* of that.
Types ==
  {FactoryTable[f].out : f \in Factories} \cup {Producer(FactoryTable[f].out) : f \in Factories}

(***************************************************************************)
(* Containers.                                                             *)
(***************************************************************************)
\* Container::new()
NewContainer == [registered_types |-> <<>>, registered_type_factories |-> <<>>]

\* HashMap::insert
Insert(map, key, value) ==
  [k \in (DOMAIN map) \cup {key} |-> IF k = key THEN value ELSE map[k]]

\* HashMap::extend
MapExtend(map, other) ==
  [k \in (DOMAIN map) \cup (DOMAIN other) |-> IF k \in DOMAIN other THEN other[k] ELSE map[k]]

\* Box<ImplementationFactory<T>> around the caller's factory f
DirectEntry(f) == [kind |-> "direct", ty |-> FactoryTable[f].out, fac |-> f]

\* A derived entry that boxes the factory of T itself.
PartialEntryOfT(f) == [kind |-> "partial", ty |-> FactoryTable[f].out, fac |-> f]

\* Box<ImplementationFactory<Box<dyn Fn() -> T>>> around the caller's factory f
PartialEntry(f) == [kind |-> "partial", ty |-> Producer(FactoryTable[f].out), fac |-> f]

\* A register that looks the dependencies of f up at once and stores nothing
\* when one is missing.
register_eagerly(c, f) ==
  IF \E k \in DOMAIN FactoryTable[f].deps :
       type_name(FactoryTable[f].deps[k]) \notin DOMAIN c.registered_types
  THEN c
  ELSE [registered_types |->
          Insert(c.registered_types, type_name(FactoryTable[f].out), DirectEntry(f)),
        registered_type_factories |->
          Insert(c.registered_type_factories, type_name(Producer(FactoryTable[f].out)),
                 PartialEntry(f))]

\* Container::register
register(c, f) ==
  [registered_types |->
     Insert(c.registered_types, type_name(FactoryTable[f].out), DirectEntry(f)),
   registered_type_factories |->
     Insert(c.registered_type_factories, type_name(Producer(FactoryTable[f].out)),
            PartialEntry(f))]

\* A merge that copies the derived producer entries and nothing else.
extend_factories(c, other) ==
  [c EXCEPT !.registered_type_factories = MapExtend(@, other.registered_type_factories)]

\* Container::extend
extend(c, other) ==
  [c EXCEPT !.registered_types = MapExtend(@, other.registered_types)]

(***************************************************************************)
(* Resolution.  An outcome is Some(val), None, a panic with its message,   *)
(* or the exhaustion of the call stack; calls lists the invocations of     *)
(* caller factories in order, each with its nesting level and the          *)
(* container it was handed.                                                *)
(***************************************************************************)
NoHelp == [text |-> "", types |-> <<>>, note |-> ""]

SomeOf(v, calls) == [tag |-> "some", val |-> <<v>>, calls |-> calls, msg |-> <<>>]
NoneOf == [tag |-> "none", val |-> <<>>, calls |-> <<>>, msg |-> <<>>]
PanicOf(m, calls) == [tag |-> "panic", val |-> <<>>, calls |-> calls, msg |-> <<m>>]
OverflowOf(calls) == [tag |-> "overflow", val |-> <<>>, calls |-> calls, msg |-> <<>>]

UnwrapMsg == [what |-> "called Option::unwrap() on a None value", ty |-> <<>>, help |-> NoHelp]

\* The value a caller factory builds from its resolved dependencies.
Built(f, args) == [kind |-> IF IsProducer(FactoryTable[f].out) THEN "closure" ELSE "data",
                   by |-> f, args |-> args, snap |-> <<>>]

\* Box::new(move || implementation_factory(&container)) over a clone of c
ProducerOf(f, c) == [kind |-> "producer", by |-> f, args |-> <<>>, snap |-> <<c>>]

\* Lexicographic order of type names.
RECURSIVE Less(_, _)
Less(a, b) ==
  IF a = <<>> THEN b # <<>>
  ELSE IF b = <<>> THEN FALSE
  ELSE IF Head(a) # Head(b) THEN Head(a) < Head(b)
  ELSE Less(Tail(a), Tail(b))

RECURSIVE SortInsert(_, _)
SortInsert(s, x) ==
  IF s = <<>> THEN <<x>>
  ELSE IF Less(x, Head(s)) THEN <<x>> \o s
  ELSE <<Head(s)>> \o SortInsert(Tail(s), x)

\* Vec::sort
RECURSIVE Sort(_)
Sort(s) == IF s = <<>> THEN <<>> ELSE SortInsert(Sort(Tail(s)), Head(s))

RECURSIVE Orders(_)
Orders(S) ==
  IF S = {} THEN {<<>>}
  ELSE UNION {{<<x>> \o s : s \in Orders(S \ {x})} : x \in S}

\* The orders in which HashMap::keys may hand out the keys of a map.
KeyOrders(map) == Orders(DOMAIN map)

\* A listing that leaves the names in the order of the map.
pretty_print_unsorted(names) == names

\* Container::pretty_print_registered_types over registered_type_names
pretty_print_registered_types(names) == Sort(names)

\* Container::resolution_failure_help
resolution_failure_help(c, names) ==
  IF DOMAIN c.registered_types = {}
  THEN [text |-> "No registered types were found.", types |-> <<>>, note |-> ""]
  ELSE [text |-> "The following registered types were found.",
        types |-> pretty_print_registered_types(names),
        note |-> "In addition, the following factories were generated for each type T. - std::boxed::Box<dyn Fn() -> T>"]

DowncastMsg(c, T, names) ==
  [what |-> "Internal error: Couldn't downcast internally stored registered type to resolved type",
   ty |-> type_name(T), help |-> resolution_failure_help(c, names)]

MissMsg(c, T, names) ==
  [what |-> "Wonderbox failed to resolve the type", ty |-> type_name(T),
   help |-> resolution_failure_help(c, names)]

\* A lookup that tries registered_type_factories first.
LookupFactoriesFirst(c, key) ==
  IF key \in DOMAIN c.registered_type_factories THEN <<c.registered_type_factories[key]>>
  ELSE IF key \in DOMAIN c.registered_types THEN <<c.registered_types[key]>>
  ELSE <<>>

\* The entry try_resolve finds for a key: registered_types first, then
\* registered_type_factories.
Lookup(c, key) ==
  IF key \in DOMAIN c.registered_types THEN <<c.registered_types[key]>>
  ELSE IF key \in DOMAIN c.registered_type_factories THEN <<c.registered_type_factories[key]>>
  ELSE <<>>

\* A registration closure that hands a missing implementation on as None.
RegistrationFnLenient(f, r) ==
  IF r.tag = "some" THEN SomeOf(Built(f, r.val[1]), r.calls)
  ELSE IF r.tag = "none" THEN NoneOf
  ELSE r

\* |implementation: Option<_>| implementation.unwrap() of
\* register_autoresolvable!, applied to the outcome r of the adapter
RegistrationFn(f, r) ==
  IF r.tag = "some" THEN SomeOf(Built(f, r.val[1]), r.calls)
  ELSE IF r.tag = "none" THEN PanicOf(UnwrapMsg, r.calls)
  ELSE r

RECURSIVE try_resolve(_, _, _, _), RunFactory(_, _, _, _), ResolveDeps(_, _, _, _, _)
RECURSIVE AutoResolve(_, _, _, _, _)

\* Container::try_resolve::<T> on c with `stack` frames left, at nesting `level`
try_resolve(c, T, stack, level) ==
  LET found == Lookup(c, type_name(T)) IN
  IF found = <<>> THEN NoneOf
  ELSE LET entry == found[1] IN
    IF entry.ty # T
    THEN PanicOf(DowncastMsg(c, T, Sort(CHOOSE s \in KeyOrders(c.registered_types) : TRUE)), <<>>)
    ELSE IF entry.kind = "direct" THEN RunFactory(entry.fac, c, stack, level)
    ELSE SomeOf(ProducerOf(entry.fac, c), <<>>)

\* An invocation that refuses to nest deeper than three factories.
RunFactoryGuarded(f, c, stack, level) ==
  LET call == [fac |-> f, level |-> level, env |-> c] IN
  IF level >= 3 THEN PanicOf(UnwrapMsg, <<>>)
  ELSE LET r == ResolveDeps(FactoryTable[f].deps, c, stack - 1, level + 1, <<>>) IN
    IF r.tag = "some" THEN SomeOf(Built(f, r.val[1]), <<call>> \o r.calls)
    ELSE [r EXCEPT !.calls = <<call>> \o @]

\* One invocation of the caller's factory f with container c; the closure of
\* register_autoresolvable is registration_fn(ResolvedType::try_resolve(container)).
RunFactory(f, c, stack, level) ==
  LET call == [fac |-> f, level |-> level, env |-> c] IN
  IF stack = 0 THEN OverflowOf(<<>>)
  ELSE IF f \in AutoFactories
  THEN [RegistrationFn(f, AutoResolve(FactoryTable[f].deps, c, stack - 1, level + 1, <<>>))
          EXCEPT !.calls = <<call>> \o @]
  ELSE LET r == ResolveDeps(FactoryTable[f].deps, c, stack - 1, level + 1, <<>>) IN
    IF r.tag = "some" THEN SomeOf(Built(f, r.val[1]), <<call>> \o r.calls)
    ELSE [r EXCEPT !.calls = <<call>> \o @]

\* ResolvedType::try_resolve(container), the adapter of the implementation:
\* the parameter types in order, None at the first that resolves to None.
AutoResolve(deps, c, stack, level, acc) ==
  IF deps = <<>> THEN SomeOf(acc, <<>>)
  ELSE LET r == try_resolve(c, Head(deps), stack, level) IN
    IF r.tag # "some" THEN r
    ELSE LET rest == AutoResolve(Tail(deps), c, stack, level, Append(acc, r.val[1])) IN
      [rest EXCEPT !.calls = r.calls \o @]

\* container.try_resolve::<D>().unwrap() for each dependency D, in order;
\* the outcome carries the resolved values as one sequence.
ResolveDeps(deps, c, stack, level, acc) ==
  IF deps = <<>> THEN SomeOf(acc, <<>>)
  ELSE LET r == try_resolve(c, Head(deps), stack, level) IN
    IF r.tag = "none" THEN PanicOf(UnwrapMsg, <<>>)
    ELSE IF r.tag # "some" THEN r
    ELSE LET rest == ResolveDeps(Tail(deps), c, stack, level, Append(acc, r.val[1])) IN
      [rest EXCEPT !.calls = r.calls \o @]

\* The key orders a resolve::<T> may see: the keys are read on a miss only.
HandedOut(c, T) ==
  IF Lookup(c, type_name(T)) = <<>> THEN KeyOrders(c.registered_types) ELSE {<<>>}

\* Container::resolve::<T>; names is the order the keys were handed out in.
resolve(c, T, names) ==
  LET r == try_resolve(c, T, MaxStack, 0) IN
  IF r.tag = "none" THEN PanicOf(MissMsg(c, T, names), <<>>) ELSE r

\* Calling a resolved callable: a derived producer runs the factory it holds
\* against the container it holds, a closure of the caller returns its own
\* value.
CallCallable(v) ==
  IF v.kind = "producer" THEN RunFactory(v.by, v.snap[1], MaxStack, 0)
  ELSE SomeOf([kind |-> "data", by |-> v.by, args |-> <<>>, snap |-> <<>>], <<>>)

(***************************************************************************)
(* The program: a container in the hands of a caller, who registers        *)
(* factories, merges second containers into it and resolves types.         *)
(* history and fwd only record what the caller did: history is, per type,  *)
(* the factory whose registration reached the container last (by register, *)
(* or through a merge) and the other factories that were registered for    *)
(* the type before it, and fwd the factories that were registered before   *)
(* one of their dependencies was.                                          *)
(***************************************************************************)
Record(op, arg, out, pre) == [op |-> op, arg |-> arg, out |-> out, pre |-> pre]

Init ==
  /\ container = NewContainer
  /\ history = <<>>
  /\ fwd = {}
  /\ last = Record("new", <<>>, NoneOf, <<>>)
  /\ held = <<>>
  /\ called = NoneOf
  /\ store = <<>> /\ heap = <<>> /\ given = <<>> /\ resolved = <<>>
  /\ item = <<>> /\ expansion = <<>> /\ adapted = <<>>

\* history after one more registration of f
Note(h, f) ==
  LET T == FactoryTable[f].out IN
  Insert(h, T, [now |-> f,
                before |-> IF T \in DOMAIN h THEN (h[T].before \cup {h[T].now}) \ {f} ELSE {}])

\* history after the registrations of h2 arrived on top of those of h
Merged(h, h2) ==
  [T \in (DOMAIN h) \cup (DOMAIN h2) |->
     IF T \notin DOMAIN h2 THEN h[T]
     ELSE IF T \notin DOMAIN h THEN h2[T]
     ELSE [now |-> h2[T].now,
           before |-> (h[T].before \cup {h[T].now} \cup h2[T].before) \ {h2[T].now}]]

WasRegistered(T) == T \in DOMAIN history

DepsMissing(f) ==
  \E k \in DOMAIN FactoryTable[f].deps : FactoryTable[f].deps[k] \notin DOMAIN history

\* container.register(f)
Register(f) ==
  /\ container' = register(container, f)
  /\ history' = Note(history, f)
  /\ fwd' = IF DepsMissing(f) THEN fwd \cup {f} ELSE fwd
  /\ last' = Record("register", <<f>>, NoneOf, <<>>)
  /\ UNCHANGED <<mainVars, codegenVars, held, called>>

\* The second containers: Container::new() and then the registrations fs.
RECURSIVE Registered(_)
Registered(fs) ==
  IF fs = <<>> THEN NewContainer
  ELSE register(Registered(SubSeq(fs, 1, Len(fs) - 1)), fs[Len(fs)])

RECURSIVE HistoryOf(_)
HistoryOf(fs) ==
  IF fs = <<>> THEN <<>>
  ELSE Note(HistoryOf(SubSeq(fs, 1, Len(fs) - 1)), fs[Len(fs)])

Registrations == UNION {[1..n -> Factories] : n \in 0..MaxOther}

Seconds == {[by |-> fs, c |-> Registered(fs), h |-> HistoryOf(fs)] : fs \in Registrations}

\* container.extend(second_container), second_container one of Seconds
Extend(second) ==
  /\ container' = extend(container, second.c)
  /\ history' = Merged(history, second.h)
  /\ last' = Record("extend", second.by, NoneOf, <<container, second.c>>)
  /\ UNCHANGED <<mainVars, codegenVars, fwd, held, called>>

\* A try_resolve that takes the entry it finds out of registered_types.
TryResolveTaking(T) ==
  /\ last' = Record("try_resolve", <<T>>, try_resolve(container, T, MaxStack, 0), <<>>)
  /\ container' = [container EXCEPT !.registered_types =
                     [k \in (DOMAIN @) \ {type_name(T)} |-> @[k]]]
  /\ UNCHANGED <<mainVars, codegenVars, history, fwd, held, called>>

\* container.try_resolve::<T>()
TryResolve(T) ==
  /\ last' = Record("try_resolve", <<T>>, try_resolve(container, T, MaxStack, 0), <<>>)
  /\ UNCHANGED <<mainVars, codegenVars, container, history, fwd, held, called>>

\* container.resolve::<T>()
Resolve(T) ==
  /\ \E names \in HandedOut(container, T) :
       last' = Record("resolve", <<T>>, resolve(container, T, names), <<>>)
  /\ UNCHANGED <<mainVars, codegenVars, container, history, fwd, held, called>>

\* let factory = container.try_resolve::<Box<dyn Fn() -> T>>().unwrap(), kept
\* by the caller; at and now record the container and the factory of T of
\* that moment.
Hold(T) ==
  /\ held = <<>>
  /\ WasRegistered(T)
  /\ LET r == try_resolve(container, Producer(T), MaxStack, 0) IN
       /\ r.tag = "some"
       /\ held' = <<[ty |-> T, val |-> r.val[1], at |-> container, now |-> history[T].now]>>
       /\ last' = Record("try_resolve", <<Producer(T)>>, r, <<>>)
  /\ UNCHANGED <<mainVars, codegenVars, container, history, fwd, called>>

\* factory(), a call of the callable the caller keeps
CallHeld ==
  /\ held # <<>>
  /\ called' = CallCallable(held[1].val)
  /\ last' = Record("call", <<held[1].ty>>, NoneOf, <<>>)
  /\ UNCHANGED <<mainVars, codegenVars, container, history, fwd, held>>

Next ==
  \/ \E f \in Factories : Register(f)
  \/ \E second \in Seconds : Extend(second)
  \/ \E T \in Types : TryResolve(T)
  \/ \E T \in Types : Resolve(T)

Spec == Init /\ [][Next]_vars

\* A caller who only registers and resolves.
NextRegister ==
  \/ \E f \in Factories : Register(f)
  \/ \E T \in Types : TryResolve(T)
  \/ \E T \in Types : Resolve(T)

SpecRegister == Init /\ [][NextRegister]_vars

\* A caller who keeps a resolved callable while the container changes.
NextHeld ==
  \/ \E f \in Factories : Register(f)
  \/ \E T \in Types : Hold(T)
  \/ CallHeld

SpecHeld == Init /\ [][NextHeld]_vars

\* register_autoresolvable!(container, Impl as Box<dyn Trait>), f its closure
RegisterAutoresolvable(f) ==
  /\ container' = register(container, f)
  /\ history' = Note(history, f)
  /\ fwd' = IF DepsMissing(f) THEN fwd \cup {f} ELSE fwd
  /\ last' = Record("register_autoresolvable", <<f>>, NoneOf, <<>>)
  /\ UNCHANGED <<mainVars, codegenVars, held, called>>

\* A caller who registers factories and auto-resolvable implementations.
NextAuto ==
  \/ \E f \in {"str", "foo"} : Register(f)
  \/ \E f \in AutoFactories : RegisterAutoresolvable(f)
  \/ \E T \in Types : TryResolve(T)

SpecAuto == Init /\ [][NextAuto]_vars

(***************************************************************************)
(* src/src/main.rs: the container that stores values and hands out         *)
(* duplicates of them. A value is owned data (a String, a Box) or a shared *)
(* handle (an Rc) to a heap cell; given records, per type, the text of the *)
(* value as the caller registered it, and resolved the copies the caller   *)
(* keeps, each with the stored value and the given text of its moment.     *)
(***************************************************************************)
MainTypes == {"String", "Rc<RefCell<String>>", "Box<dyn Foo>"}

\* T: Clone
IsClone(T) == T # "Box<dyn Foo>"

\* T is a reference-counted handle
IsShared(T) == T = "Rc<RefCell<String>>"

TextsOf(T) == IF T = "Box<dyn Foo>" THEN {<<>>} ELSE {<<>>, <<"s">>}

Holders == {"one", "other"}

Owned(T, text) == [ty |-> T, data |-> text, ptr |-> 0]
Shared(T, p) == [ty |-> T, data |-> <<>>, ptr |-> p]

Concrete(v) == [kind |-> "Concrete", val |-> <<v>>]
Factory(T) == [kind |-> "Factory", val |-> <<>>]

\* The text a value shows to its holder.
Deep(v, h) == IF IsShared(v.ty) THEN h[v.ptr] ELSE v.data

\* A duplication that yields the default value of an owning type.
clone_default(v) == IF IsShared(v.ty) THEN Shared(v.ty, v.ptr) ELSE Owned(v.ty, <<>>)

\* Clone::clone: a String copies its bytes, an Rc copies the pointer.
clone(v) == IF IsShared(v.ty) THEN Shared(v.ty, v.ptr) ELSE Owned(v.ty, v.data)

ExplicitPanic == [what |-> "explicit panic", ty |-> <<>>, help |-> NoHelp]

\* Resolvable::<T>::resolve on the map st: the impl for T: Clone where T is
\* Clone, the default impl otherwise.
main_resolve(st, T) ==
  IF T \notin DOMAIN st THEN NoneOf
  ELSE IF st[T].kind = "Factory" THEN SomeOf(Owned(T, <<>>), <<>>)
  ELSE IF IsClone(T) THEN SomeOf(clone(st[T].val[1]), <<>>)
  ELSE PanicOf(ExplicitPanic, <<>>)

\* container.register(v), v a value of type T showing text
MainRegister(T, text) ==
  /\ IsShared(T) => Len(heap) < MaxCells
  /\ store' = Insert(store, T, Concrete(IF IsShared(T) THEN Shared(T, Len(heap) + 1)
                                         ELSE Owned(T, text)))
  /\ heap' = IF IsShared(T) THEN Append(heap, text) ELSE heap
  /\ given' = Insert(given, T, text)
  /\ last' = Record("main_register", <<T>>, NoneOf, <<>>)
  /\ UNCHANGED <<resolved, container, history, fwd, held, called, codegenVars>>

\* container.register_factory(Box::new(|_| Box::new(FooImpl::new()) as T))
MainRegisterFactory(T) ==
  /\ store' = Insert(store, T, Factory(T))
  /\ given' = [U \in (DOMAIN given) \ {T} |-> given[U]]
  /\ last' = Record("main_register_factory", <<T>>, NoneOf, <<>>)
  /\ UNCHANGED <<heap, resolved, container, history, fwd, held, called, codegenVars>>

\* let holder: Option<T> = container.resolve()
MainResolve(T, holder) ==
  /\ last' = Record("main_resolve", <<T>>, main_resolve(store, T), <<>>)
  /\ resolved' = IF main_resolve(store, T).tag = "some" /\ T \in DOMAIN given
                 THEN Insert(resolved, holder,
                             [val |-> main_resolve(store, T).val[1], src |-> store[T].val[1],
                              of |-> given[T], touched |-> FALSE])
                 ELSE resolved
  /\ UNCHANGED <<store, heap, given, container, history, fwd, held, called, codegenVars>>

\* holder.push_str("x"), or holder.borrow_mut().push_str("x") through an Rc
MainMutate(holder) ==
  /\ holder \in DOMAIN resolved
  /\ LET c == resolved[holder]
         text == Deep(c.val, heap) IN
       /\ Len(text) < MaxLen
       /\ heap' = IF IsShared(c.val.ty)
                  THEN [heap EXCEPT ![c.val.ptr] = Append(text, "x")]
                  ELSE heap
       /\ resolved' = [resolved EXCEPT ![holder] =
                         [@ EXCEPT !.touched = TRUE,
                                   !.val = IF IsShared(c.val.ty) THEN c.val
                                           ELSE Owned(c.val.ty, Append(text, "x"))]]
  /\ last' = Record("main_mutate", <<holder>>, NoneOf, <<>>)
  /\ UNCHANGED <<store, given, container, history, fwd, held, called, codegenVars>>

NextMain ==
  \/ \E T \in MainTypes : \E text \in TextsOf(T) : MainRegister(T, text)
  \/ \E T \in {"Box<dyn Foo>"} : MainRegisterFactory(T)
  \/ \E T \in MainTypes : \E holder \in Holders : MainResolve(T, holder)
  \/ \E holder \in Holders : MainMutate(holder)

SpecMain == Init /\ [][NextMain]_vars

(***************************************************************************)
(* src/wonderbox-codegen/src/lib.rs: the attribute #[resolve_dependencies] *)
(* over an item, a function from the item to the emitted tokens and the    *)
(* emitted diagnostics, and the adapter it emits run on a container.       *)
(***************************************************************************)
ATTRIBUTE_NAME == "#[resolve_dependencies]"

Ok(v) == [ok |-> TRUE, val |-> <<v>>, err |-> <<>>]
Err(d) == [ok |-> FALSE, val |-> <<>>, err |-> <<d>>]

\* Diagnostic::spanned(_, Level::Error, message)
Diagnostic(message) == [level |-> "Error", message |-> message]

\* An argument as written, and the FnArg that syn parses it to: a receiver
\* with a type (self: Box<Self>) is a captured argument like any other.
Arg(form, ty) == [form |-> form, ty |-> ty]

parse_fn_arg(arg) ==
  IF arg.form = "&self" THEN [variant |-> "SelfRef", ty |-> <<>>]
  ELSE IF arg.form = "self" THEN [variant |-> "SelfValue", ty |-> <<>>]
  ELSE [variant |-> "Captured", ty |-> <<arg.ty>>]

\* The type of the impl block, and Box<Self>, which no factory builds.
SelfTy == "List"
TBoxSelf == Ty("BoxSelf", 0)

\* The items an impl block is written from.
ImplItems ==
  [new       |-> [kind |-> "Method", inputs |-> <<>>, output |-> <<"Self">>],
   with_both |-> [kind |-> "Method", output |-> <<SelfTy>>,
                  inputs |-> <<Arg("typed", TString), Arg("typed", TFoo)>>],
   with_rev  |-> [kind |-> "Method", output |-> <<"Self">>,
                  inputs |-> <<Arg("typed", TFoo), Arg("typed", TString)>>],
   grown     |-> [kind |-> "Method", output |-> <<"Self">>,
                  inputs |-> <<Arg("&self", <<>>), Arg("typed", TString)>>],
   into      |-> [kind |-> "Method", output |-> <<"Self">>, inputs |-> <<Arg("self", <<>>)>>],
   unbox     |-> [kind |-> "Method", output |-> <<"Self">>,
                  inputs |-> <<Arg("self: Box<Self>", TBoxSelf)>>],
   clear     |-> [kind |-> "Method", output |-> <<>>, inputs |-> <<>>],
   name      |-> [kind |-> "Method", output |-> <<"String">>, inputs |-> <<>>],
   CAPACITY  |-> [kind |-> "Const", output |-> <<>>, inputs |-> <<>>]]

\* The syn item of an impl block with the items named by ids, for a trait
\* (impl Default for List) or not (impl List).
ItemImpl(trait, ids) ==
  [kind |-> "Impl", trait_ |-> trait, self_ty |-> SelfTy,
   items |-> [k \in DOMAIN ids |->
               [ident |-> ids[k], kind |-> ImplItems[ids[k]].kind,
                output |-> ImplItems[ids[k]].output,
                inputs |-> [a \in DOMAIN ImplItems[ids[k]].inputs |->
                             parse_fn_arg(ImplItems[ids[k]].inputs[a])]]]]

\* struct List { capacity: usize }
ItemStruct == [kind |-> "Struct", trait_ |-> <<>>, self_ty |-> SelfTy, items |-> <<>>]

Distinct(ids) == \A a, b \in DOMAIN ids : ids[a] = ids[b] => a = b

Items ==
  {ItemStruct} \cup
  {ItemImpl(trait, ids) :
     trait \in {<<>>, <<"Default">>},
     ids \in {q \in UNION {[1..n -> DOMAIN ImplItems] : n \in 0..MaxItems} : Distinct(q)}}

parse_item_impl(it) ==
  IF it.kind = "Impl" THEN Ok(it)
  ELSE Err(Diagnostic(<<ATTRIBUTE_NAME, " needs to be placed over an impl block">>))

validate_item_impl(item_impl) ==
  IF item_impl.trait_ = <<>>
  THEN Err(Diagnostic(<<ATTRIBUTE_NAME, " must be placed over a direct impl, not a trait impl">>))
  ELSE Ok(<<>>)

generate_self_type == "Self"

parse_method_signature(impl_item) ==
  IF impl_item.kind = "Method" THEN <<impl_item>> ELSE <<>>

returns_self(function, explicit_self_type) ==
  IF function.output = <<>> THEN FALSE
  ELSE function.output[1] = generate_self_type \/ function.output[1] = explicit_self_type

has_no_self_parameter(function) ==
  IF function.inputs = <<>> THEN TRUE
  ELSE function.inputs[1].variant \notin {"SelfRef", "SelfValue"}

\* The methods of the block that return Self and have no self parameter, in
\* their order.
parse_constructors(item_impl) ==
  LET IsConstructor(impl_item) ==
        /\ parse_method_signature(impl_item) # <<>>
        /\ returns_self(impl_item, item_impl.self_ty)
        /\ has_no_self_parameter(impl_item)
      Kept[k \in 0..Len(item_impl.items)] ==
        IF k = 0 THEN <<>>
        ELSE IF IsConstructor(item_impl.items[k]) THEN Append(Kept[k - 1], item_impl.items[k])
        ELSE Kept[k - 1]
  IN Kept[Len(item_impl.items)]

parse_constructor_argument_types(constructor) ==
  IF \E a \in DOMAIN constructor.inputs :
       constructor.inputs[a].variant \in {"SelfRef", "SelfValue"}
  THEN Err(Diagnostic(<<"internal error: entered unreachable code">>))
  ELSE IF \E a \in DOMAIN constructor.inputs : constructor.inputs[a].variant # "Captured"
  THEN Err(Diagnostic(<<"Only normal, non self type parameters are supported">>))
  ELSE Ok([a \in DOMAIN constructor.inputs |-> constructor.inputs[a].ty[1]])

\* The resolutions in the order they were declared.
generate_type_resolutions_reversed(types) ==
  [k \in DOMAIN types |-> [resolve |-> types[Len(types) + 1 - k], question_mark |-> TRUE]]

\* container.resolve::<#type_>()? for every type, in order
generate_type_resolutions(types) ==
  [k \in DOMAIN types |-> [resolve |-> types[k], question_mark |-> TRUE]]

\* The tokens are the item and, after it, the impl of AutoResolvable; the
\* result of validate_item_impl is dropped.
generate_autoresolvable_impl(it) ==
  LET parsed == parse_item_impl(it) IN
  IF ~parsed.ok THEN parsed
  ELSE
    LET item_impl == parsed.val[1]
        validated == validate_item_impl(item_impl)
        constructors == parse_constructors(item_impl)
    IN
    IF Len(constructors) # 1
    THEN Err(Diagnostic(<<"Expected one constructor, found ", ToString(Len(constructors))>>))
    ELSE
      LET constructor == constructors[1]
          constructor_argument_types == parse_constructor_argument_types(constructor)
      IN
      IF ~constructor_argument_types.ok THEN constructor_argument_types
      ELSE Ok([item |-> item_impl,
               adapter |-> <<[self_ty |-> item_impl.self_ty,
                              ident |-> constructor.ident,
                              resolutions |->
                                generate_type_resolutions(constructor_argument_types.val[1])]>>])

\* The attribute: the emitted tokens and the emitted diagnostics.
resolve_dependencies(it) ==
  LET result == generate_autoresolvable_impl(it) IN
  IF result.ok THEN [tokens |-> result.val[1], diagnostics |-> <<>>]
  ELSE [tokens |-> [item |-> it, adapter |-> <<>>], diagnostics |-> result.err]

\* container.resolve::<T>() as the emitted adapter uses it, an Option<T>.
container_resolve(c, T) == try_resolve(c, T, MaxStack, 0)

\* The arguments Self::ident(...) is called with: each resolution in turn,
\* the question mark leaving at the first None.
RECURSIVE EvalResolutions(_, _, _, _)
EvalResolutions(resolutions, c, asked, args) ==
  IF resolutions = <<>> THEN [tag |-> "some", args |-> args, asked |-> asked]
  ELSE
    LET T == resolutions[1].resolve
        r == container_resolve(c, T)
    IN
    IF r.tag = "some"
    THEN EvalResolutions(Tail(resolutions), c, Append(asked, T), Append(args, r.val[1]))
    ELSE [tag |-> r.tag, args |-> <<>>, asked |-> Append(asked, T)]

\* <Self as AutoResolvable>::resolve(container) of the emitted impl
AutoResolvable_resolve(adapter, c) ==
  LET e == EvalResolutions(adapter.resolutions, c, <<>>, <<>>) IN
  [tag |-> e.tag,
   val |-> IF e.tag = "some"
           THEN <<[of |-> adapter.self_ty, by |-> adapter.ident, args |-> e.args]>>
           ELSE <<>>,
   asked |-> e.asked]

\* The containers an adapter is run on.
AdapterContainers ==
  {Registered(fs) : fs \in {<<>>, <<"str">>, <<"foo">>, <<"str", "foo">>}}

\* The attribute is expanded over the item it.
Expand(it) ==
  /\ item' = <<it>>
  /\ expansion' = <<resolve_dependencies(it)>>
  /\ adapted' = <<>>
  /\ last' = Record("expand", <<>>, NoneOf, <<>>)
  /\ UNCHANGED <<container, history, fwd, held, called, mainVars>>

\* The adapter of the last expansion is asked for a value on container c.
Adapt(c) ==
  /\ expansion # <<>>
  /\ expansion[1].tokens.adapter # <<>>
  /\ adapted' = <<[on |-> c, out |-> AutoResolvable_resolve(expansion[1].tokens.adapter[1], c)]>>
  /\ last' = Record("adapt", <<>>, NoneOf, <<>>)
  /\ UNCHANGED <<container, history, fwd, held, called, mainVars, item, expansion>>

NextCodegen ==
  \/ \E it \in Items : Expand(it)
  \/ \E c \in AdapterContainers : Adapt(c)

SpecCodegen == Init /\ [][NextCodegen]_vars

(***************************************************************************)
(* Properties.                                                             *)
(***************************************************************************)
Resolutions == {"try_resolve", "resolve"}

\* The type of the last resolution.
Asked == last.arg[1]

\* The outcome is the fatal miss of resolve::<T>().
IsMiss(out, T) ==
  /\ out.tag = "panic"
  /\ out.msg[1].what = "Wonderbox failed to resolve the type"
  /\ out.msg[1].ty = type_name(T)

\* T was never registered and is not the producer type of a registered type.
Unknown(T) == ~WasRegistered(T) /\ ~(IsProducer(T) /\ WasRegistered(Produced(T)))

\* C1: a type that was never registered (by register or through a merge) and
\* is not the producer type of a registered type resolves to None with
\* try_resolve, and resolve fails with the diagnostic that names the type.
C1_UnregisteredMisses ==
  (last.op \in Resolutions /\ Unknown(Asked)) =>
    IF last.op = "try_resolve" THEN last.out = NoneOf ELSE IsMiss(last.out, Asked)

C1_Witness ==
  /\ last.op = "resolve"
  /\ Unknown(Asked)
  /\ IsProducer(Asked)
  /\ IsMiss(last.out, Asked)
  /\ Cardinality(DOMAIN history) >= 2

\* The invocations try_resolve itself made, not those made by factories.
TopCalls(calls) == SelectSeq(calls, LAMBDA call : call.level = 0)

\* C2: try_resolve::<T>() invokes the factory f registered for T exactly once,
\* with the container it was called on, and returns what f built; resolving
\* Box<dyn Fn() -> T> succeeds without invoking f, and one call of the
\* resolved callable invokes f exactly once.
C2_FactoryInvokedOnce ==
  /\ (last.op = "try_resolve" /\ WasRegistered(Asked)) =>
       /\ Len(TopCalls(last.out.calls)) = 1
       /\ TopCalls(last.out.calls)[1].fac = history[Asked].now
       /\ TopCalls(last.out.calls)[1].env = container
       /\ last.out.tag = "some" => last.out.val[1].by = history[Asked].now
  /\ (last.op = "try_resolve" /\ IsProducer(Asked) /\ WasRegistered(Produced(Asked))) =>
       /\ last.out.tag = "some"
       /\ \A k \in DOMAIN last.out.calls : last.out.calls[k].fac # history[Produced(Asked)].now
       /\ LET once == CallCallable(last.out.val[1]) IN
            /\ Len(TopCalls(once.calls)) = 1
            /\ TopCalls(once.calls)[1].fac = history[Produced(Asked)].now

\* C3: once a second factory was registered for a type T, try_resolve::<T>()
\* and the callable resolved as Box<dyn Fn() -> T> both behave as the factory
\* registered last does.
C3_LastWriteWins ==
  /\ (last.op = "try_resolve" /\ WasRegistered(Asked) /\ history[Asked].before # {}) =>
       last.out = RunFactory(history[Asked].now, container, MaxStack, 0)
  /\ (last.op = "try_resolve" /\ IsProducer(Asked) /\ WasRegistered(Produced(Asked))
        /\ history[Produced(Asked)].before # {}) =>
       /\ last.out.tag = "some"
       /\ CallCallable(last.out.val[1])
            = RunFactory(history[Produced(Asked)].now, container, MaxStack, 0)

\* C4: try_resolve of Box<dyn Fn() -> T> succeeds whenever T was registered,
\* by register or through a merge, and returns None only if T never was.
C4_ProducerOfRegistered ==
  (last.op = "try_resolve" /\ IsProducer(Asked)) =>
    /\ WasRegistered(Produced(Asked)) => last.out.tag = "some"
    /\ last.out.tag = "none" => ~WasRegistered(Produced(Asked))

Found(c, T) == Lookup(c, type_name(T)) # <<>>

\* C5: after first.extend(second) every type that first or second resolved
\* before is resolved by first, with the factory of second when second had
\* one and with the factory first had otherwise.
C5_MergeKeepsAll ==
  last.op = "extend" =>
    \A T \in Types :
      /\ (Found(last.pre[1], T) \/ Found(last.pre[2], T)) => Found(container, T)
      /\ Found(last.pre[2], T) =>
           Lookup(container, type_name(T))[1].fac = Lookup(last.pre[2], type_name(T))[1].fac
      /\ (Found(last.pre[1], T) /\ ~Found(last.pre[2], T)) =>
           Lookup(container, type_name(T)) = Lookup(last.pre[1], type_name(T))

\* C6: with bar (which resolves Foo), foo (which resolves String) and str all
\* registered, in whatever order, try_resolve::<Box<dyn Bar>>() returns the
\* Bar built from the Foo built from the String.
C6_OrderIndependent ==
  (/\ last.op = "try_resolve" /\ Asked = TBar
   /\ WasRegistered(TBar) /\ history[TBar].now = "bar"
   /\ WasRegistered(TFoo) /\ history[TFoo].now = "foo"
   /\ WasRegistered(TString) /\ history[TString].now = "str") =>
    /\ last.out.tag = "some"
    /\ last.out.val[1] = Built("bar", <<Built("foo", <<Built("str", <<>>)>>)>>)

C6_Witness ==
  /\ last.op = "try_resolve" /\ Asked = TBar
  /\ last.out.tag = "some"
  /\ last.out.val[1] = Built("bar", <<Built("foo", <<Built("str", <<>>)>>)>>)
  /\ fwd = {"bar", "foo"}

\* C8: no type identity has more than one stored factory, the entries of
\* registered_types and the derived producer entries counted together.
C8_OneFactoryPerIdentity ==
  (DOMAIN container.registered_types) \cap (DOMAIN container.registered_type_factories) = {}

\* C9: a resolution leaves both maps of the container as they were, and a
\* resolution repeated right after another one of the same type returns the
\* same outcome.
C9_ResolutionIsPure ==
  [][last'.op \in Resolutions =>
       /\ container' = container
       /\ (last.op = last'.op /\ last.arg = last'.arg) => last'.out = last.out
       /\ (last.op \in Resolutions /\ last.arg = last'.arg) => last'.out.val = last.out.val]_vars

C9_Witness ==
  /\ last.op = "resolve"
  /\ last.out.tag = "some"
  /\ Len(last.out.calls) >= 3
  /\ container.registered_type_factories # <<>>

\* The type names of a sequence ascend strictly.
Ascending(names) == \A k \in 1..(Len(names) - 1) : Less(names[k], names[k + 1])

\* C10: the diagnostic of a missed resolve says that no registered types
\* were found when nothing is registered, and otherwise lists the identity
\* of every registered type once, in ascending order, before the note on
\* the Box<dyn Fn() -> T> factories.
C10_Diagnostic ==
  (last.op = "resolve" /\ IsMiss(last.out, Asked)) =>
    LET help == last.out.msg[1].help IN
    IF DOMAIN history = {}
    THEN help = resolution_failure_help(NewContainer, <<>>) /\ help.types = <<>>
         /\ help.text = "No registered types were found."
    ELSE /\ help.text = "The following registered types were found."
         /\ Ascending(help.types)
         /\ {help.types[k] : k \in DOMAIN help.types} = {type_name(T) : T \in DOMAIN history}
         /\ help.note # ""

C10_Witness ==
  /\ last.op = "resolve" /\ IsMiss(last.out, Asked)
  /\ Len(last.out.msg[1].help.types) = 4

\* C7: a call of the callable resolved as Box<dyn Fn() -> T> returns what
\* the factory of T returns when run against the container as it was when
\* the callable was resolved, whatever was registered since.
C7_CallableOwnsSnapshot ==
  (last.op = "call" /\ held # <<>>) =>
    called = RunFactory(held[1].now, held[1].at, MaxStack, 0)

\* The chain of resolutions that starts at T ends within n factories: T was
\* registered, and so does the chain of every dependency of its factory.
RECURSIVE Ends(_, _)
Ends(T, n) ==
  /\ n > 0
  /\ WasRegistered(T)
  /\ \A k \in DOMAIN FactoryTable[history[T].now].deps :
       Ends(FactoryTable[history[T].now].deps[k], n - 1)

\* The factory of Foo resolves Bar and the factory of Bar resolves Foo.
Cyclic ==
  /\ WasRegistered(TFoo) /\ history[TFoo].now = "foocyc"
  /\ WasRegistered(TBar) /\ history[TBar].now = "bar"

\* The factories of the calls alternate between those of a and b, from a on.
Alternates(calls, a, b) ==
  \A k \in DOMAIN calls :
    /\ calls[k].level = k - 1
    /\ calls[k].fac = IF k % 2 = 1 THEN a ELSE b

\* C11: a resolution returns a value when every chain of resolutions from the
\* type ends in a factory that resolves nothing; with two factories that
\* resolve each other it returns nothing, nesting one invocation in the
\* other until the call stack is exhausted.
C11_NoCycleDetection ==
  (last.op \in Resolutions /\ WasRegistered(Asked)) =>
    /\ Ends(Asked, MaxStack) => last.out.tag = "some"
    /\ (Cyclic /\ Asked \in {TFoo, TBar}) =>
         /\ last.out.tag = "overflow"
         /\ Len(last.out.calls) = MaxStack
         /\ Alternates(last.out.calls, history[Asked].now,
                       IF Asked = TFoo THEN "bar" ELSE "foocyc")

C11_Witness ==
  /\ last.op = "resolve" /\ Asked = TFoo
  /\ Cyclic
  /\ last.out.tag = "overflow"
  /\ Len(last.out.calls) = MaxStack

IsInternalError(out) ==
  /\ out.tag = "panic"
  /\ out.msg[1].what = DowncastMsg(NewContainer, TString, <<>>).what

\* C12: whatever try_resolve::<T>() finds under the identity of T, in either
\* map, is a factory of exactly T, so that no resolution ends in the internal
\* downcast error, whose message is not that of a miss.
C12_DowncastSucceeds ==
  /\ \A T \in Types :
       Found(container, T) => Lookup(container, type_name(T))[1].ty = T
  /\ last.op \in Resolutions => ~IsInternalError(last.out)
  /\ DowncastMsg(container, TString, <<>>).what # MissMsg(container, TString, <<>>).what

C12_Witness ==
  /\ last.op = "try_resolve"
  /\ last.out.tag = "some"
  /\ IsProducer(Asked)
  /\ type_name(Asked) \notin DOMAIN container.registered_types

\* What the caller's copies and the stored original show, for the types in Ts.
CopiesKeep(Ts) ==
  /\ \A T \in (DOMAIN given) \cap Ts : Deep(store[T].val[1], heap) = given[T]
  /\ \A holder \in DOMAIN resolved :
       (resolved[holder].val.ty \in Ts /\ ~resolved[holder].touched) =>
         Deep(resolved[holder].val, heap) = resolved[holder].of
  /\ (last.op = "main_resolve" /\ Asked \in (DOMAIN given) \cap Ts) =>
       /\ last.out.tag = "some"
       /\ Deep(last.out.val[1], heap) = given[Asked]

\* C13 as stated: for every cloneable v of type T registered under T, every
\* resolution of T returns a value equal to v, and a change to one resolved
\* copy affects neither another copy nor the stored original.
C13_IndependentCopies == CopiesKeep({T \in MainTypes : IsClone(T)})

\* C13: for every cloneable v of an owning type T registered under T, every
\* resolution of T returns a value equal to v, and a change to one resolved
\* copy affects neither another copy nor the stored original; the copies of
\* a shared handle are handles to the cell of the stored original.
C13_OwnedCopiesIndependent ==
  /\ CopiesKeep({T \in MainTypes : IsClone(T) /\ ~IsShared(T)})
  /\ \A holder \in DOMAIN resolved :
       IsShared(resolved[holder].val.ty) =>
         resolved[holder].val.ptr = resolved[holder].src.ptr
  /\ (last.op = "main_resolve" /\ Asked \in DOMAIN given /\ IsShared(Asked)) =>
       /\ last.out.tag = "some"
       /\ last.out.val[1] = store[Asked].val[1]

C13_Witness ==
  /\ DOMAIN resolved = Holders
  /\ \A holder \in Holders : resolved[holder].val.ty = "String"
  /\ resolved["one"].of = resolved["other"].of
  /\ resolved["one"].touched /\ ~resolved["other"].touched
  /\ "String" \in DOMAIN given /\ given["String"] = resolved["one"].of
  /\ resolved["one"].val # resolved["other"].val

\* The first parameter type that c does not resolve, 0 when it resolves all.
RECURSIVE FirstMissing(_, _, _)
FirstMissing(types, c, k) ==
  IF k > Len(types) THEN 0
  ELSE IF try_resolve(c, types[k], MaxStack, 0).tag = "some" THEN FirstMissing(types, c, k + 1)
  ELSE k

\* The parameter types of the constructor the adapter calls, as declared.
Declared(adapter) ==
  [a \in DOMAIN ImplItems[adapter.ident].inputs |-> ImplItems[adapter.ident].inputs[a].ty]

Eligible(it) ==
  {k \in DOMAIN it.items :
     /\ it.items[k].kind = "Method"
     /\ it.items[k].output \in {<<"Self">>, <<it.self_ty>>}
     /\ \A a \in DOMAIN ImplItems[it.items[k].ident].inputs :
          ImplItems[it.items[k].ident].inputs[a].form \notin {"&self", "self", "self: Box<Self>"}}

ExpectedOne(n) == Diagnostic(<<"Expected one constructor, found ", ToString(n)>>)

\* C15: the attribute emits an adapter only for an impl block with exactly
\* one eligible constructor; for an impl block with none or with more than
\* one it reports "Expected one constructor, found N", N their number, and
\* emits the item as it was, with no adapter.
C15_ExactlyOneConstructor ==
  (expansion # <<>> /\ item[1].kind = "Impl") =>
    LET n == Cardinality(Eligible(item[1])) IN
    /\ expansion[1].tokens.adapter # <<>> => n = 1
    /\ expansion[1].tokens.item = item[1]
    /\ n # 1 =>
         /\ expansion[1].diagnostics = <<ExpectedOne(n)>>
         /\ expansion[1].tokens.adapter = <<>>

\* C16: over the impl of a trait the attribute reports that it must be
\* placed over a direct impl and emits no adapter; over a direct impl it
\* does not report that.
C16_TraitImplRejected ==
  (expansion # <<>> /\ item[1].kind = "Impl") =>
    IF item[1].trait_ # <<>>
    THEN /\ expansion[1].diagnostics =
              <<Diagnostic(<<ATTRIBUTE_NAME, " must be placed over a direct impl, not a trait impl">>)>>
         /\ expansion[1].tokens.adapter = <<>>
    ELSE \A k \in DOMAIN expansion[1].diagnostics :
           expansion[1].diagnostics[k].message[1] # ATTRIBUTE_NAME

\* C17: for every T that the container resolves both directly and as
\* Box<dyn Fn() -> T>, the resolved callable, called at once, returns what
\* try_resolve::<T>() returns.
C17_ProducerAgreesWithDirect ==
  \A T \in Types :
    LET direct == try_resolve(container, T, MaxStack, 0)
        producer == try_resolve(container, Producer(T), MaxStack, 0)
    IN
    (direct.tag = "some" /\ producer.tag = "some") =>
      /\ CallCallable(producer.val[1]).tag = "some"
      /\ CallCallable(producer.val[1]).val = direct.val

\* The identity Box<dyn Fn() -> T> has an entry in both maps of c.
TwoEntries(c, T) ==
  /\ type_name(Producer(T)) \in DOMAIN c.registered_types
  /\ type_name(Producer(T)) \in DOMAIN c.registered_type_factories

\* C18: when the identity Box<dyn Fn() -> T> has a directly registered entry
\* and a derived producer entry, try_resolve of it returns what the directly
\* registered factory returns, never the derived producer, whichever of the
\* two was registered last.
C18_DirectEntryWins ==
  \A T \in Types :
    TwoEntries(container, T) =>
      LET out == try_resolve(container, Producer(T), MaxStack, 0) IN
      /\ out = RunFactory(container.registered_types[type_name(Producer(T))].fac,
                          container, MaxStack, 0)
      /\ out.tag = "some" => out.val[1].kind # "producer"
      /\ (last.op = "try_resolve" /\ Asked = Producer(T)) => last.out = out

\* The factory of Foo was registered after the factory of the callable type.
C18_Witness ==
  /\ last.op = "register" /\ last.arg = <<"foo">>
  /\ TwoEntries(container, TFoo)
  /\ try_resolve(container, Producer(TFoo), MaxStack, 0).val = <<Built("pfoo", <<>>)>>

NothingResolves(c) ==
  \A T \in Types \cup {Producer(U) : U \in Types} : try_resolve(c, T, MaxStack, 0) = NoneOf

\* C19: every derived producer entry Box<dyn Fn() -> T> of the container is
\* that of a T with an entry in registered_types; a container without
\* entries in registered_types resolves nothing, and the diagnostic "No
\* registered types were found." is only produced by a container of which
\* every try_resolve returns None.
C19_ProducersHaveDirectEntry ==
  /\ \A key \in DOMAIN container.registered_type_factories :
       LET entry == container.registered_type_factories[key] IN
       /\ IsProducer(entry.ty)
       /\ key = type_name(entry.ty)
       /\ type_name(Produced(entry.ty)) \in DOMAIN container.registered_types
  /\ DOMAIN container.registered_types = {} => NothingResolves(container)
  /\ (/\ last.op = "resolve"
      /\ last.out.tag = "panic"
      /\ last.out.msg[1].help.text = "No registered types were found.") =>
       NothingResolves(container)

C19_Witness ==
  /\ last.op = "resolve"
  /\ IsMiss(last.out, Asked)
  /\ IsProducer(Asked)
  /\ last.out.msg[1].help.text = "No registered types were found."
  /\ history = <<>>

\* The parameter types of the constructor behind f that c has no entry for.
Unregistered(f, c) ==
  {k \in DOMAIN FactoryTable[f].deps : ~Found(c, FactoryTable[f].deps[k])}

====
